---- MODULE Spec2Model ----
(***************************************************************************)
(* Attendance scheduling and reconciliation engine of black-bird           *)
(* (src-tauri/src/scheduler.rs) and its token refresh coordinator          *)
(* (src-tauri/src/token_manager.rs).                                       *)
(*                                                                         *)
(* Time is counted in minutes since an arbitrary UTC midnight.  The wall   *)
(* clock advances in steps of TickMins.  A timestamp string is modelled    *)
(* by its format and the instant it denotes.                               *)
(***************************************************************************)
EXTENDS Integers, Sequences, FiniteSets, Bags, TLC

\* ------------------------------------------------------------------------
\* Bounds of the model
\* ------------------------------------------------------------------------
TicksPerDay == 4
MaxTicks == 1
MaxOps == 2
MaxTasks == 2
HostSlots == 1

\* ------------------------------------------------------------------------
\* Units and program constants
\* ------------------------------------------------------------------------
MinsPerDay == 1440
SecsPerMin == 60
TickMins == MinsPerDay \div TicksPerDay
MaxTime == MaxTicks * TickMins
\* offset of chrono::Local from UTC, in minutes (a fixed-offset zone)
TzOffset == 480
\* fallback work duration of calculate_expected_clock_out_time: hours(9)
FallbackMins == 540
\* default of calculate_clock_out_from_external when no schedule is stored
DefaultExternalMins == 540
\* schedule_clock_out: delay_seconds > 86400 is capped to 43200, <= 0 to 1
LongDelaySecs == 86400
CappedDelaySecs == 43200
DueDelaySecs == 1

Max(a, b) == IF a >= b THEN a ELSE b

\* ------------------------------------------------------------------------
\* Option<String> timestamps
\* ------------------------------------------------------------------------
None == [fmt |-> "none", t |-> 0]
\* DateTime<Utc>::to_rfc3339(): an RFC 3339 string denoting instant t
Rfc(t) == [fmt |-> "rfc3339", t |-> t]
\* "YYYY-MM-DD HH:MM:SS": no offset, t is the wall-clock reading
Naive(t) == [fmt |-> "naive", t |-> t]

\* DateTime::parse_from_rfc3339(s).is_ok()
ParsesRfc3339(s) == s.fmt = "rfc3339"

\* date_naive() of an instant seen in chrono::Local
LocalDate(t) == (t + TzOffset) \div MinsPerDay

\* ------------------------------------------------------------------------
\* Work schedules offered to start_scheduler.  clock_in_time is the result
\* of split(':') with each part parsed as u32.
\* ------------------------------------------------------------------------
Schedules ==
  { [auto_schedule_enabled |-> TRUE,  clock_in_time |-> <<14, 0>>, min_work_duration_minutes |-> 360],
    [auto_schedule_enabled |-> TRUE,  clock_in_time |-> <<8, 0>>,  min_work_duration_minutes |-> 360],
    [auto_schedule_enabled |-> FALSE, clock_in_time |-> <<9, 0>>,  min_work_duration_minutes |-> 720],
    [auto_schedule_enabled |-> TRUE,  clock_in_time |-> <<25, 0>>, min_work_duration_minutes |-> 1500] }

NoSchedule == [auto_schedule_enabled |-> FALSE, clock_in_time |-> <<>>, min_work_duration_minutes |-> 0 - 1]

ClockInId(ts) == [k |-> "clock_in", ts |-> ts]
ClockOutId(ts) == [k |-> "clock_out", ts |-> ts]
ClockOutExternalId(ts) == [k |-> "clock_out_external", ts |-> ts]


\* argument recorded with the last handler event
NoArg == [k |-> "-", ts |-> 0]
Arg(k) == [k |-> k, ts |-> 0]

\* `last` is the handler that returned in the last step, with its result;
\* Quiet when the last step was the clock or a task going into a remote call
Quiet == [op |-> "-", res |-> "-", arg |-> NoArg]

VARIABLES now, state, schedule, tasks, calls, storage, last

vars == <<now, state, schedule, tasks, calls, storage, last>>

\* Credential store: the values under the two fixed keys, 0 when the key
\* is absent, otherwise the number of the token stored (an access token k
\* comes with the refresh token -k)
NoTokens == [refresh_token |-> 0, access_token |-> 0]
InitialTokens == [refresh_token |-> 0 - 1, access_token |-> 1]

\* get_saved_access_token(...).is_ok()
HasAccessToken == storage.access_token # 0

\* Results of a call through the token coordinator, as the scheduler sees
\* them: clock_in_api / clock_out_api return Ok(true) or Err(text).  Spec
\* takes a call through the coordinator as one remote call with one of
\* these results; SpecTok below follows the coordinator step by step.
CallResults == {"Ok(true)", "Err(Api)"}

\* `calls` is the bag of the host's calls that wait for a remote call to
\* return: pc is the remote call, from is the entry point the host called
Call(pc, from) == [pc |-> pc, from |-> from]

\* the host has a thread free to start another call
FreeSlot == BagCardinality(calls) < HostSlots

\* new(): the state after construction
NewState ==
  [is_running |-> FALSE,
   current_session |-> [clocked_in |-> FALSE, clock_in_time |-> None, expected_clock_out_time |-> None],
   pending_operations |-> <<>>,
   last_error |-> "None"]

\* The spawned timer tasks that have not finished, as a bag.  A task sleeps
\* until `wake` and then calls the remote service.  `handle` tells whether
\* task_handles still holds the JoinHandle of the task: insert() under an
\* id that is already in the table drops the older handle, which detaches
\* that task.  Handles of finished tasks stay in the table, where nothing
\* can tell them from absent ones (aborting a finished task does nothing).
Task(type, id, wake) ==
  [kind |-> type, id |-> id, wake |-> wake, pc |-> "sleep", handle |-> TRUE]

One(e) == SetToBag({e})

\* the ids under which task_handles holds the handle of a live task
task_handles == {t.id : t \in {u \in BagToSet(tasks) : u.handle}}

\* the scheduler's shared cells, threaded through a handler
World == [st |-> state, tk |-> tasks]

\* the bounds on the operation list and on the live tasks
Fits(w) ==
  /\ Len(w.st.pending_operations) <= MaxOps
  /\ BagCardinality(w.tk) <= MaxTasks

\* cancel_all_tasks: drain the handle table and abort every handle in it
cancel_all_tasks(w) ==
  LET kept == {t \in BagToSet(w.tk) : ~t.handle}
  IN [w EXCEPT !.tk = [t \in kept |-> w.tk[t]]]

\* get_next_clock_in_time without the step to tomorrow
get_next_clock_in_time_today(sch, t) ==
  LET parts == sch.clock_in_time IN
  IF Len(parts) # 2 THEN [ok |-> FALSE, t |-> 0]
  ELSE IF ~(parts[1] < 24 /\ parts[2] < 60) THEN [ok |-> FALSE, t |-> 0]
  ELSE
    LET now_local == t + TzOffset
        today == (now_local \div MinsPerDay) * MinsPerDay + parts[1] * 60 + parts[2]
    IN [ok |-> TRUE, t |-> today - TzOffset]

\* get_next_clock_in_time: Ok(instant) or Err
get_next_clock_in_time(sch, t) ==
  LET parts == sch.clock_in_time IN
  IF Len(parts) # 2 THEN [ok |-> FALSE, t |-> 0]
  ELSE IF ~(parts[1] < 24 /\ parts[2] < 60) THEN [ok |-> FALSE, t |-> 0]
  ELSE
    LET now_local == t + TzOffset
        today == (now_local \div MinsPerDay) * MinsPerDay + parts[1] * 60 + parts[2]
        next_clock_in == IF today <= now_local THEN today + MinsPerDay ELSE today
    IN [ok |-> TRUE, t |-> next_clock_in - TzOffset]

PendingOp(id, type, time) ==
  [id |-> id, operation_type |-> type, scheduled_time |-> time,
   status |-> "pending", actual_time |-> None, error_message |-> "None"]

\* tokio::spawn of a timer task plus task_handles.insert(id, task)
Spawn(w, id, type, wake) ==
  LET older == {t \in BagToSet(w.tk) : t.handle /\ t.id = id}
      detached == IF older = {} THEN w.tk
                  ELSE LET t == CHOOSE u \in older : TRUE
                       IN (w.tk (-) One(t)) (+) One([t EXCEPT !.handle = FALSE])
  IN [w EXCEPT !.tk = detached (+) One(Task(type, id, wake))]

\* schedule_next_clock_in
schedule_next_clock_in(w, sch, t) ==
  IF sch = NoSchedule \/ ~sch.auto_schedule_enabled THEN [w |-> w, res |-> "Ok"]
  ELSE
    LET next == get_next_clock_in_time(sch, t) IN
    IF ~next.ok THEN [w |-> w, res |-> "Err(Validation)"]
    ELSE
      LET id == ClockInId(next.t)
          w1 == [w EXCEPT !.st.pending_operations =
                    Append(@, PendingOp(id, "ClockIn", Rfc(next.t)))]
          delay == (next.t - t) * SecsPerMin
      IN [w |-> Spawn(w1, id, "ClockIn", t + Max(delay, 1) \div SecsPerMin), res |-> "Ok"]

Init ==
  /\ now = 0
  /\ state = NewState
  /\ schedule = NoSchedule
  /\ tasks = EmptyBag
  /\ calls = EmptyBag
  /\ storage \in {NoTokens, InitialTokens}
  /\ last = [op |-> "new", res |-> "Ok", arg |-> NoArg]

\* the wall clock advances
Tick ==
  /\ now < MaxTime
  /\ now' = now + TickMins
  /\ last' = Quiet
  /\ UNCHANGED <<state, schedule, tasks, calls, storage>>

Commit(w) ==
  /\ Fits(w)
  /\ state' = w.st
  /\ tasks' = w.tk

\* start_scheduler(schedule)
start_scheduler(sch) ==
  LET w0 == [World EXCEPT !.st.is_running = TRUE, !.st.last_error = "None"]
      w1 == cancel_all_tasks(w0)
      r == IF sch.auto_schedule_enabled THEN schedule_next_clock_in(w1, sch, now)
           ELSE [w |-> w1, res |-> "Ok"]
  IN /\ schedule' = sch
     /\ Commit(r.w)
     /\ last' = [op |-> "start_scheduler", res |-> r.res, arg |-> NoArg]
     /\ UNCHANGED <<now, calls, storage>>

\* a stop that drops only the oldest listed operation
stopped_popping(w) ==
  cancel_all_tasks([w EXCEPT !.st.is_running = FALSE,
                             !.st.pending_operations = IF @ = <<>> THEN @ ELSE Tail(@)])

\* what stop_scheduler makes of the state and the tasks
stopped(w) ==
  cancel_all_tasks([w EXCEPT !.st.is_running = FALSE, !.st.pending_operations = <<>>])

\* stop_scheduler()
stop_scheduler ==
  /\ Commit(stopped(World))
  /\ last' = [op |-> "stop_scheduler", res |-> "Ok", arg |-> NoArg]
  /\ UNCHANGED <<now, schedule, calls, storage>>

\* first index of an operation with the given id (iter_mut().find), 0 if none
FindOp(ops, id) ==
  IF \E i \in 1..Len(ops) : ops[i].id = id
  THEN CHOOSE i \in 1..Len(ops) : ops[i].id = id /\ \A j \in 1..(i - 1) : ops[j].id # id
  ELSE 0

\* calculate_expected_clock_out_time_standalone(&now, &schedule)
calculate_expected_clock_out_time_standalone(clock_in_time, sch, t) ==
  IF ParsesRfc3339(clock_in_time) /\ sch # NoSchedule
  THEN Rfc(clock_in_time.t + sch.min_work_duration_minutes)
  ELSE Rfc(t + FallbackMins)

\* the part of execute_scheduled_clock_in after the remote call returned
execute_scheduled_clock_in(w, sch, id, result, t) ==
  LET i == FindOp(w.st.pending_operations, id) IN
  IF i = 0 THEN w
  ELSE
    LET w1 == [w EXCEPT !.st.pending_operations[i].actual_time = Rfc(t)] IN
    CASE result = "Ok(true)" ->
           [w1 EXCEPT !.st.pending_operations[i].status = "completed",
                      !.st.current_session =
                         [clocked_in |-> TRUE,
                          clock_in_time |-> Rfc(t),
                          expected_clock_out_time |->
                             calculate_expected_clock_out_time_standalone(Rfc(t), sch, t)]]
      [] result = "Ok(false)" ->
           [w1 EXCEPT !.st.pending_operations[i].status = "failed",
                      !.st.pending_operations[i].error_message = "Clock-in API returned false"]
      [] OTHER ->
           [w1 EXCEPT !.st.pending_operations[i].status = "failed",
                      !.st.pending_operations[i].error_message = result]

\* the part of execute_scheduled_clock_out after the remote call returned
execute_scheduled_clock_out(w, id, result, t) ==
  LET i == FindOp(w.st.pending_operations, id) IN
  IF i = 0 THEN w
  ELSE
    LET w1 == [w EXCEPT !.st.pending_operations[i].actual_time = Rfc(t)] IN
    CASE result = "Ok(true)" ->
           [w1 EXCEPT !.st.pending_operations[i].status = "completed",
                      !.st.current_session =
                         [clocked_in |-> FALSE, clock_in_time |-> None,
                          expected_clock_out_time |-> None]]
      [] result = "Ok(false)" ->
           [w1 EXCEPT !.st.pending_operations[i].status = "failed",
                      !.st.pending_operations[i].error_message = "Clock-out API returned false"]
      [] OTHER ->
           [w1 EXCEPT !.st.pending_operations[i].status = "failed",
                      !.st.pending_operations[i].error_message = result]

\* a timer task ran to its end: record the outcome, the task is gone
TimerDone(tk, result) ==
  LET w0 == [World EXCEPT !.tk = @ (-) One(tk)]
      w1 == IF tk.kind = "ClockIn"
            THEN execute_scheduled_clock_in(w0, schedule, tk.id, result, now)
            ELSE execute_scheduled_clock_out(w0, tk.id, result, now)
  IN /\ Commit(w1)
     /\ last' = [op |-> IF tk.kind = "ClockIn" THEN "execute_scheduled_clock_in"
                        ELSE "execute_scheduled_clock_out",
                 res |-> result, arg |-> tk.id]
     /\ UNCHANGED <<now, schedule, calls, storage>>

\* sleep(delay) is over: the task calls the remote service through the
\* token coordinator, which fails at once when no access token is stored
TimerFire(tk) ==
  /\ BagIn(tk, tasks) /\ tk.pc = "sleep" /\ now >= tk.wake
  /\ IF HasAccessToken
     THEN /\ tasks' = (tasks (-) One(tk)) (+) One([tk EXCEPT !.pc = "call"])
          /\ last' = Quiet
          /\ UNCHANGED <<now, state, schedule, calls, storage>>
     ELSE TimerDone(tk, "Err(Authentication)")

\* the remote call of a fired timer returns
TimerReturn(tk, result) ==
  /\ BagIn(tk, tasks) /\ tk.pc = "call"
  /\ TimerDone(tk, result)


\* ------------------------------------------------------------------------
\* u32 arithmetic: a value is kept as two 16-bit limbs
\* ------------------------------------------------------------------------
Limb == 65536

\* `x as u32` for a signed x
AsU32(x) == [hi |-> (x \div Limb) % Limb, lo |-> x % Limb]

U32Ge(a, b) == a.hi > b.hi \/ (a.hi = b.hi /\ a.lo >= b.lo)

\* can_clock_out
can_clock_out(st, sch, t) ==
  LET clock_in_time == st.current_session.clock_in_time IN
  IF clock_in_time # None /\ sch # NoSchedule /\ ParsesRfc3339(clock_in_time)
  THEN LET elapsed_minutes == AsU32(t - clock_in_time.t)
       IN U32Ge(elapsed_minutes, AsU32(sch.min_work_duration_minutes))
  ELSE FALSE

\* calculate_expected_clock_out_time
calculate_expected_clock_out_time(clock_in_time, sch, t) ==
  IF ParsesRfc3339(clock_in_time) /\ sch # NoSchedule
  THEN Rfc(clock_in_time.t + sch.min_work_duration_minutes)
  ELSE Rfc(t + FallbackMins)

\* the wait of a clock-out timer without the cap on long delays
ClockOutWaitSecs_uncapped(delay_seconds) ==
  IF delay_seconds <= 0 THEN DueDelaySecs ELSE delay_seconds

\* the wait of a clock-out timer for a computed delay, in seconds
ClockOutWaitSecs(delay_seconds) ==
  IF delay_seconds <= 0 THEN DueDelaySecs
  ELSE IF delay_seconds > LongDelaySecs THEN CappedDelaySecs
  ELSE delay_seconds

\* schedule_clock_out
schedule_clock_out(w, sch, t) ==
  LET clock_in_time == w.st.current_session.clock_in_time IN
  IF clock_in_time = None \/ sch = NoSchedule THEN w
  ELSE
    LET clock_out_time == calculate_expected_clock_out_time(clock_in_time, sch, t)
        id == ClockOutId(clock_out_time.t)
        w1 == [w EXCEPT !.st.pending_operations =
                  Append(@, PendingOp(id, "ClockOut", clock_out_time))]
        delay_seconds == (clock_out_time.t - t) * SecsPerMin
    IN Spawn(w1, id, "ClockOut", t + ClockOutWaitSecs(delay_seconds) \div SecsPerMin)

\* pending_operations.retain(|op| !matches!(op.operation_type, type) || op.status != "pending")
Retain(ops, type) ==
  SelectSeq(ops, LAMBDA op : op.operation_type # type \/ op.status # "pending")

\* manual_clock_in after call_clock_in_with_retry returned Ok(true)
manual_clock_in_ok(w, sch, t) ==
  LET w1 == [w EXCEPT !.st.current_session =
                 [clocked_in |-> TRUE,
                  clock_in_time |-> Rfc(t),
                  expected_clock_out_time |-> calculate_expected_clock_out_time(Rfc(t), sch, t)],
               !.st.pending_operations = Retain(@, "ClockIn")]
  IN schedule_clock_out(w1, sch, t)

\* a manual clock-out that clears the times and forgets the flag
manual_clock_out_ok_flagged(w, sch, t) ==
  LET w1 == [w EXCEPT !.st.current_session =
                 [clocked_in |-> @.clocked_in, clock_in_time |-> None,
                  expected_clock_out_time |-> None],
               !.st.pending_operations = Retain(@, "ClockOut")]
  IN schedule_next_clock_in(w1, sch, t)

\* manual_clock_out after call_clock_out_with_retry returned Ok(true)
manual_clock_out_ok(w, sch, t) ==
  LET w1 == [w EXCEPT !.st.current_session =
                 [clocked_in |-> FALSE, clock_in_time |-> None,
                  expected_clock_out_time |-> None],
               !.st.pending_operations = Retain(@, "ClockOut")]
  IN schedule_next_clock_in(w1, sch, t)

\* manual_clock_in(): the remote call is issued
manual_clock_in_call ==
  /\ FreeSlot
  /\ IF HasAccessToken
     THEN /\ calls' = calls (+) One(Call("clock_in", "host"))
          /\ last' = Quiet
     ELSE /\ last' = [op |-> "manual_clock_in", res |-> "Err(Authentication)", arg |-> NoArg]
          /\ UNCHANGED calls
  /\ UNCHANGED <<now, state, schedule, tasks, storage>>

\* the clock-in call of manual_clock_in returns; check_auto_startup passes
\* the result on
manual_clock_in_return(c, result) ==
  /\ BagIn(c, calls) /\ c.pc = "clock_in"
  /\ Commit(IF result = "Ok(true)" THEN manual_clock_in_ok(World, schedule, now) ELSE World)
  /\ calls' = calls (-) One(c)
  /\ last' = [op |-> IF c.from = "host" THEN "manual_clock_in" ELSE "check_auto_startup",
              res |-> result, arg |-> Arg("manual_clock_in")]
  /\ UNCHANGED <<now, schedule, storage>>

\* manual_clock_out(bypass_minimum): refused, or the remote call is issued
manual_clock_out_call(bypass_minimum) ==
  LET arg == IF bypass_minimum THEN Arg("bypass") ELSE Arg("no bypass") IN
  /\ FreeSlot
  /\ IF ~bypass_minimum /\ ~can_clock_out(state, schedule, now)
     THEN /\ last' = [op |-> "manual_clock_out", res |-> "Err(Validation)", arg |-> arg]
          /\ UNCHANGED calls
     ELSE IF HasAccessToken
     THEN /\ calls' = calls (+) One(Call("clock_out", "host"))
          /\ last' = Quiet
     ELSE /\ last' = [op |-> "manual_clock_out", res |-> "Err(Authentication)", arg |-> arg]
          /\ UNCHANGED calls
  /\ UNCHANGED <<now, state, schedule, tasks, storage>>

\* the clock-out call of manual_clock_out returns
manual_clock_out_return(c, result) ==
  LET r == IF result = "Ok(true)" THEN manual_clock_out_ok(World, schedule, now)
           ELSE [w |-> World, res |-> "Ok"]
  IN /\ BagIn(c, calls) /\ c.pc = "clock_out"
        /\ Commit(r.w)
     /\ calls' = calls (-) One(c)
     /\ last' = [op |-> IF c.from = "host" THEN "manual_clock_out" ELSE "check_auto_startup",
                 res |-> IF r.res = "Ok" THEN result ELSE r.res,
                 arg |-> Arg("manual_clock_out")]
     /\ UNCHANGED <<now, schedule, storage>>


\* ------------------------------------------------------------------------
\* Reconciliation check
\* ------------------------------------------------------------------------
AttendanceItem(status, time_in, time_out, restday) ==
  [attendance_status |-> status, date_time_in |-> time_in,
   date_time_out |-> time_out, is_restday |-> restday]

NoItem == AttendanceItem("-", None, None, FALSE)

\* what attendance_check_with_shared_tokens can return at time t: an error,
\* no record for today, or today's record of the remote service
AttendanceResults(t) ==
  { [res |-> "Err", item |-> NoItem], [res |-> "Ok(None)", item |-> NoItem] } \cup
  { [res |-> "Ok(Some)", item |-> i] : i \in
      { AttendanceItem("Started", Naive(t + TzOffset - TickMins), None, FALSE),
        AttendanceItem("Started", Rfc(t + TickMins), None, FALSE),
        AttendanceItem("Completed", Naive(t + TzOffset - TickMins), Naive(t + TzOffset), FALSE),
        AttendanceItem("On leave", None, None, FALSE),
        AttendanceItem("Rest day", None, None, TRUE),
        AttendanceItem("Absent", None, None, FALSE) } }

\* calculate_clock_out_from_external reading a timestamp without an offset
\* as UTC
calculate_clock_out_from_external_utc(external_clock_in, sch) ==
  LET work_duration == IF sch # NoSchedule THEN sch.min_work_duration_minutes
                       ELSE DefaultExternalMins
  IN IF ParsesRfc3339(external_clock_in)
     THEN [ok |-> TRUE, t |-> external_clock_in.t + work_duration]
     ELSE IF external_clock_in.fmt = "naive"
     THEN [ok |-> TRUE, t |-> external_clock_in.t + work_duration]
     ELSE [ok |-> FALSE, t |-> 0]

\* calculate_clock_out_from_external: Ok(instant) or Err
calculate_clock_out_from_external(external_clock_in, sch) ==
  LET work_duration == IF sch # NoSchedule THEN sch.min_work_duration_minutes
                       ELSE DefaultExternalMins
  IN IF ParsesRfc3339(external_clock_in)
     THEN [ok |-> TRUE, t |-> external_clock_in.t + work_duration]
     ELSE IF external_clock_in.fmt = "naive"
     THEN [ok |-> TRUE, t |-> (external_clock_in.t - TzOffset) + work_duration]
     ELSE [ok |-> FALSE, t |-> 0]

\* has_pending_clock_out
has_pending_clock_out(st) ==
  \E i \in 1..Len(st.pending_operations) :
     /\ st.pending_operations[i].operation_type = "ClockOut"
     /\ st.pending_operations[i].status = "pending"

\* schedule_clock_out_from_external
schedule_clock_out_from_external(w, external_clock_in, expected_clock_out, t) ==
  LET id == ClockOutExternalId(expected_clock_out)
      w1 == [w EXCEPT !.st.current_session =
                 [clocked_in |-> TRUE,
                  clock_in_time |-> external_clock_in,
                  expected_clock_out_time |-> Rfc(expected_clock_out)],
               !.st.pending_operations =
                  Append(@, PendingOp(id, "ClockOut", Rfc(expected_clock_out)))]
      delay_seconds == (expected_clock_out - t) * SecsPerMin
  IN Spawn(w1, id, "ClockOut", t + ClockOutWaitSecs(delay_seconds) \div SecsPerMin)

\* check_auto_startup that does not look at the session before it asks the
\* remote service
check_auto_startup_call_unguarded ==
  LET skip == IF ~HasAccessToken THEN "no token" ELSE "-"
  IN /\ FreeSlot
     /\ IF skip # "-"
        THEN /\ last' = [op |-> "check_auto_startup", res |-> "Ok(false)", arg |-> Arg(skip)]
             /\ UNCHANGED calls
        ELSE /\ calls' = calls (+) One(Call("attendance", "check"))
             /\ last' = Quiet
     /\ UNCHANGED <<now, state, schedule, tasks, storage>>

\* check_auto_startup up to the attendance call
check_auto_startup_call ==
  LET session == state.current_session
      skip == IF ~HasAccessToken THEN "no token"
              ELSE IF session.clocked_in THEN "clocked in"
              ELSE IF /\ session.clock_in_time # None
                      /\ ParsesRfc3339(session.clock_in_time)
                      /\ LocalDate(session.clock_in_time.t) = LocalDate(now)
                   THEN "today"
              ELSE "-"
  IN /\ FreeSlot
     /\ IF skip # "-"
        THEN /\ last' = [op |-> "check_auto_startup", res |-> "Ok(false)", arg |-> Arg(skip)]
             /\ UNCHANGED calls
        ELSE /\ calls' = calls (+) One(Call("attendance", "check"))
             /\ last' = Quiet
     /\ UNCHANGED <<now, state, schedule, tasks, storage>>

\* AttendanceBranch that gives up when the attendance call failed
AttendanceBranch_fatal(r) ==
  LET att == r.item
      external == calculate_clock_out_from_external(att.date_time_in, schedule)
  IN IF r.res = "Err" THEN "failed"
     ELSE IF r.res # "Ok(Some)" THEN "in"
     ELSE IF att.is_restday THEN "rest day"
     ELSE IF /\ att.attendance_status = "Started"
             /\ att.date_time_in # None
             /\ att.date_time_out = None
          THEN IF ~external.ok THEN "unparsed"
               ELSE IF now >= external.t THEN "out"
               ELSE IF ~has_pending_clock_out(state) THEN "adopt"
               ELSE "scheduled"
     ELSE IF att.attendance_status = "Completed" THEN "completed"
     ELSE IF att.attendance_status = "On leave" THEN "on leave"
     ELSE "in"

\* what check_auto_startup does with the attendance result: "in" and "out"
\* go on to manual_clock_in() and manual_clock_out(true), the rest returns
AttendanceBranch(r) ==
  LET att == r.item
      external == calculate_clock_out_from_external(att.date_time_in, schedule)
  IN IF r.res # "Ok(Some)" THEN "in"
     ELSE IF att.is_restday THEN "rest day"
     ELSE IF /\ att.attendance_status = "Started"
             /\ att.date_time_in # None
             /\ att.date_time_out = None
          THEN IF ~external.ok THEN "unparsed"
               ELSE IF now >= external.t THEN "out"
               ELSE IF ~has_pending_clock_out(state) THEN "adopt"
               ELSE "scheduled"
     ELSE IF att.attendance_status = "Completed" THEN "completed"
     ELSE IF att.attendance_status = "On leave" THEN "on leave"
     ELSE "in"

\* the attendance call of check_auto_startup returns
attendance_return(c, r) ==
  LET branch == AttendanceBranch(r)
      att == r.item
      w1 == IF branch = "adopt"
            THEN schedule_clock_out_from_external(World, att.date_time_in,
                    calculate_clock_out_from_external(att.date_time_in, schedule).t, now)
            ELSE IF branch = "completed"
            THEN [World EXCEPT !.st.current_session =
                     [clocked_in |-> FALSE,
                      clock_in_time |-> att.date_time_in,
                      expected_clock_out_time |-> att.date_time_out]]
            ELSE World
  IN /\ BagIn(c, calls) /\ c.pc = "attendance"
        /\ Commit(w1)
     /\ IF branch \in {"in", "out"}
        THEN /\ calls' = (calls (-) One(c)) (+)
                            One(Call(IF branch = "in" THEN "clock_in" ELSE "clock_out", "check"))
             /\ last' = Quiet
        ELSE /\ calls' = calls (-) One(c)
             /\ last' = [op |-> "check_auto_startup", res |-> "Ok(false)", arg |-> Arg(branch)]
     /\ UNCHANGED <<now, schedule, storage>>

Next ==
  \/ Tick
  \/ \E sch \in Schedules : start_scheduler(sch)
  \/ stop_scheduler
  \/ \E tk \in BagToSet(tasks) : TimerFire(tk)
  \/ \E tk \in BagToSet(tasks), result \in CallResults : TimerReturn(tk, result)
  \/ manual_clock_in_call
  \/ \E c \in BagToSet(calls), result \in CallResults : manual_clock_in_return(c, result)
  \/ \E b \in BOOLEAN : manual_clock_out_call(b)
  \/ \E c \in BagToSet(calls), result \in CallResults : manual_clock_out_return(c, result)
  \/ check_auto_startup_call
  \/ \E c \in BagToSet(calls), r \in AttendanceResults(now) : attendance_return(c, r)

Spec == Init /\ [][Next]_vars

\* ------------------------------------------------------------------------
\* Token refresh coordinator (token_manager.rs)
\*
\* Texts are sequences of characters, so that the classification of an
\* error text is the substring search of the code.  In SpecTok `calls` is
\* the bag of the calls of api_with_shared_tokens in flight, `storage` the
\* credential store they read and write, and `last` the call that returned
\* in the last step; the scheduler stands still.
\*
\* MaxCalls bounds the calls in flight; the service issues the token pairs
\* 2..MaxIssued.
\* ------------------------------------------------------------------------
MaxCalls == 1
MaxIssued == 2

Contains(text, pattern) ==
  \E i \in 1..(Len(text) - Len(pattern) + 1) :
    SubSeq(text, i, i + Len(pattern) - 1) = pattern

T401 == <<"4", "0", "1">>
Tunauthorized == <<"u", "n", "a", "u", "t", "h", "o", "r", "i", "z", "e", "d">>
Tinvalid_token == <<"i", "n", "v", "a", "l", "i", "d", "_", "t", "o", "k", "e", "n">>
Ttoken_expired == <<"t", "o", "k", "e", "n", "_", "e", "x", "p", "i", "r", "e", "d">>
TUnauthorized == <<"U", "n", "a", "u", "t", "h", "o", "r", "i", "z", "e", "d">>
TToken == <<"T", "o", "k", "e", "n">>
Texpired == <<"e", "x", "p", "i", "r", "e", "d">>

is_token_error(error) ==
  \/ Contains(error, T401)
  \/ Contains(error, Tunauthorized)
  \/ Contains(error, Tinvalid_token)
  \/ Contains(error, Ttoken_expired)
  \/ Contains(error, TUnauthorized)
  \/ (Contains(error, TToken) /\ Contains(error, Texpired))

\* error texts the remote service answers with
TTokenExpired == <<"T", "o", "k", "e", "n", " ", "e", "x", "p", "i", "r", "e", "d">>
T500 == <<"5", "0", "0">>
TUNAUTHORIZED == <<"U", "N", "A", "U", "T", "H", "O", "R", "I", "Z", "E", "D">>
T400 == <<"4", "0", "0">>
ErrorTexts == {T401, TTokenExpired, T500, TUNAUTHORIZED}

\* operation_name of the wrappers
Tclock_in == <<"c", "l", "o", "c", "k", "_", "i", "n">>
Tclock_out == <<"c", "l", "o", "c", "k", "_", "o", "u", "t">>
OperationNames == {Tclock_in, Tclock_out}

Tfailed == <<" ", "f", "a", "i", "l", "e", "d", ":", " ">>
Tretry_failed == <<" ", "r", "e", "t", "r", "y", " ", "f", "a", "i", "l", "e", "d", ":", " ">>
TTokenRefreshFailed == <<"T", "o", "k", "e", "n", " ", "r", "e", "f", "r", "e", "s", "h", " ", "f", "a", "i", "l", "e", "d", ":", " ">>
TNoAccessToken == <<"N", "o", " ", "a", "c", "c", "e", "s", "s", " ", "t", "o", "k", "e", "n", " ", "f", "o", "u", "n", "d">>
TNoRefreshToken == <<"N", "o", " ", "r", "e", "f", "r", "e", "s", "h", " ", "t", "o", "k", "e", "n", " ", "f", "o", "u", "n", "d">>
TIO == <<"I", "O", " ", "e", "r", "r", "o", "r">>

Ok(value) == [tag |-> "Ok", value |-> value]
Err(error) == [tag |-> "Err", error |-> error]

AppError_storage(message) == [type |-> "Storage", message |-> message]
AppError_api(message, status_code) == [type |-> "Api", message |-> message, status_code |-> status_code]
AppError_authentication(message) == [type |-> "Authentication", message |-> message]

\* the pair the service issues at its k-th exchange
TokenResponse(k) == [refresh_token |-> 0 - k, access_token |-> k]

OperationResults == {Ok(TRUE)} \cup {Err(e) : e \in ErrorTexts}
ExchangeResults == {Ok(TokenResponse(k)) : k \in 2..MaxIssued} \cup {Err(T400)}
IoResults == {Ok(TRUE), Err(TIO)}

REFRESH_TOKEN_KEY == "refresh_token"
ACCESS_TOKEN_KEY == "access_token"

\* what a call of the coordinator did so far: a remote call or a write to
\* the store, what it passed and what came back
Event(call, arg, res) == [call |-> call, arg |-> arg, res |-> res]

\* A call of api_with_shared_tokens in flight.  pc is what it waits for;
\* access_token and new_tokens are its local variables; log is the list of
\* the events of the call.
Coordinator(operation_name, access_token) ==
  [pc |-> "operation", operation_name |-> operation_name,
   access_token |-> access_token, new_tokens |-> NoTokens, log |-> <<>>]

Logged(c, call, arg, res) == [c EXCEPT !.log = Append(@, Event(call, arg, res))]

\* a step of a call: either it goes on as c, or it returns res
GoOn(c, pc) == [done |-> FALSE, c |-> [c EXCEPT !.pc = pc], res |-> Ok(FALSE)]
Return(c, res) == [done |-> TRUE, c |-> [c EXCEPT !.pc = "done"], res |-> res]

\* a retry with the token the call began with
retry_token_saved(c) == c.access_token

\* the token the retry is made with
retry_token(c) == c.new_tokens.access_token

\* a first attempt that takes every error for a token error
first_attempt_refreshing(c, res) ==
  LET d == Logged(c, "operation", c.access_token, res)
  IN IF res.tag = "Ok" THEN Return(d, res) ELSE GoOn(d, "retrieve")

\* lines 114-148: the first call of the operation has come back
first_attempt(c, res) ==
  LET d == Logged(c, "operation", c.access_token, res)
  IN IF res.tag = "Ok" THEN Return(d, res)
     ELSE IF is_token_error(res.error) THEN GoOn(d, "retrieve")
     ELSE Return(d, Err(AppError_api(c.operation_name \o Tfailed \o res.error, 500)))

\* lines 44-45: refresh_and_save_tokens reads the refresh token
retrieve_refresh_token(c, io, stored) ==
  IF io.tag = "Err" THEN Return(Logged(c, "retrieve", REFRESH_TOKEN_KEY, io), Err(AppError_storage(io.error)))
  ELSE IF stored.refresh_token = 0 THEN Return(c, Err(AppError_authentication(TNoRefreshToken)))
  ELSE GoOn([c EXCEPT !.new_tokens = [@ EXCEPT !.refresh_token = stored.refresh_token]], "exchange")

\* an exchange whose failure is followed by a retry all the same
exchanged_retrying(c, res) ==
  LET d == Logged(c, "exchange", c.new_tokens.refresh_token, res)
  IN IF res.tag = "Ok" THEN GoOn([d EXCEPT !.new_tokens = res.value], "store refresh_token")
     ELSE GoOn([d EXCEPT !.new_tokens = [@ EXCEPT !.access_token = c.access_token]], "retry")

\* lines 48-76: the exchange has come back
exchanged(c, res) ==
  LET d == Logged(c, "exchange", c.new_tokens.refresh_token, res)
  IN IF res.tag = "Ok" THEN GoOn([d EXCEPT !.new_tokens = res.value], "store refresh_token")
     ELSE Return(d, Err(AppError_authentication(TTokenRefreshFailed \o res.error)))

\* line 54
stored_refresh_token(c, io) ==
  LET d == Logged(c, "store", <<REFRESH_TOKEN_KEY, c.new_tokens.refresh_token>>, io)
  IN IF io.tag = "Ok" THEN GoOn(d, "store access_token")
     ELSE Return(d, Err(AppError_storage(io.error)))

\* line 55, and line 127: the retry starts
stored_access_token(c, io) ==
  LET d == Logged(c, "store", <<ACCESS_TOKEN_KEY, c.new_tokens.access_token>>, io)
  IN IF io.tag = "Ok" THEN GoOn(d, "retry")
     ELSE Return(d, Err(AppError_storage(io.error)))

\* lines 127-136: the retry has come back
retried(c, res) ==
  LET d == Logged(c, "operation", retry_token(c), res)
  IN IF res.tag = "Ok" THEN Return(d, res)
     ELSE Return(d, Err(AppError_api(c.operation_name \o Tretry_failed \o res.error, 500)))

\* the call c takes the step s
Proceed(c, s) ==
  /\ calls' = IF s.done THEN calls (-) One(c) ELSE (calls (-) One(c)) (+) One(s.c)
  /\ last' = IF s.done THEN [op |-> "api_with_shared_tokens", res |-> s.res, arg |-> s.c] ELSE Quiet

Waiting(c, pc) == BagIn(c, calls) /\ c.pc = pc

\* an entry that calls the operation whether or not a token is stored
api_with_shared_tokens_unchecked(operation_name, io) ==
  /\ BagCardinality(calls) < MaxCalls
  /\ LET c == Coordinator(operation_name, storage.access_token)
         s == IF io.tag = "Err"
              THEN Return(Logged(c, "retrieve", ACCESS_TOKEN_KEY, io), Err(AppError_storage(io.error)))
              ELSE GoOn(c, "operation")
     IN /\ calls' = IF s.done THEN calls ELSE calls (+) One(s.c)
        /\ last' = IF s.done THEN [op |-> "api_with_shared_tokens", res |-> s.res, arg |-> s.c] ELSE Quiet
  /\ UNCHANGED <<now, state, schedule, tasks, storage>>

\* lines 112-114: the saved access token is read and the operation called
api_with_shared_tokens(operation_name, io) ==
  /\ BagCardinality(calls) < MaxCalls
  /\ LET c == Coordinator(operation_name, storage.access_token)
         s == IF io.tag = "Err"
              THEN Return(Logged(c, "retrieve", ACCESS_TOKEN_KEY, io), Err(AppError_storage(io.error)))
              ELSE IF storage.access_token = 0
              THEN Return(c, Err(AppError_authentication(TNoAccessToken)))
              ELSE GoOn(c, "operation")
     IN /\ calls' = IF s.done THEN calls ELSE calls (+) One(s.c)
        /\ last' = IF s.done THEN [op |-> "api_with_shared_tokens", res |-> s.res, arg |-> s.c] ELSE Quiet
  /\ UNCHANGED <<now, state, schedule, tasks, storage>>

operation_returns(c, res) ==
  /\ Waiting(c, "operation")
  /\ Proceed(c, first_attempt(c, res))
  /\ UNCHANGED <<now, state, schedule, tasks, storage>>

refresh_and_save_tokens(c, io) ==
  /\ Waiting(c, "retrieve")
  /\ Proceed(c, retrieve_refresh_token(c, io, storage))
  /\ UNCHANGED <<now, state, schedule, tasks, storage>>

exchange_returns(c, res) ==
  /\ Waiting(c, "exchange")
  /\ Proceed(c, exchanged(c, res))
  /\ UNCHANGED <<now, state, schedule, tasks, storage>>

store_refresh_token(c, io) ==
  /\ Waiting(c, "store refresh_token")
  /\ Proceed(c, stored_refresh_token(c, io))
  /\ storage' = IF io.tag = "Ok" THEN [storage EXCEPT !.refresh_token = c.new_tokens.refresh_token] ELSE storage
  /\ UNCHANGED <<now, state, schedule, tasks>>

store_access_token(c, io) ==
  /\ Waiting(c, "store access_token")
  /\ Proceed(c, stored_access_token(c, io))
  /\ storage' = IF io.tag = "Ok" THEN [storage EXCEPT !.access_token = c.new_tokens.access_token] ELSE storage
  /\ UNCHANGED <<now, state, schedule, tasks>>

retry_returns(c, res) ==
  /\ Waiting(c, "retry")
  /\ Proceed(c, retried(c, res))
  /\ UNCHANGED <<now, state, schedule, tasks, storage>>

NextTok ==
  \/ \E name \in OperationNames, io \in IoResults : api_with_shared_tokens(name, io)
  \/ \E c \in BagToSet(calls), res \in OperationResults : operation_returns(c, res)
  \/ \E c \in BagToSet(calls), io \in IoResults : refresh_and_save_tokens(c, io)
  \/ \E c \in BagToSet(calls), res \in ExchangeResults : exchange_returns(c, res)
  \/ \E c \in BagToSet(calls), io \in IoResults : store_refresh_token(c, io)
  \/ \E c \in BagToSet(calls), io \in IoResults : store_access_token(c, io)
  \/ \E c \in BagToSet(calls), res \in OperationResults : retry_returns(c, res)

SpecTok == Init /\ [][NextTok]_vars

\* ------------------------------------------------------------------------
\* The scheduler left to itself: no command but start and stop
\* ------------------------------------------------------------------------
NextAuto ==
  \/ Tick
  \/ \E sch \in Schedules : start_scheduler(sch)
  \/ stop_scheduler
  \/ \E tk \in BagToSet(tasks) : TimerFire(tk)
  \/ \E tk \in BagToSet(tasks), result \in CallResults : TimerReturn(tk, result)

SpecAuto == Init /\ [][NextAuto]_vars

\* ------------------------------------------------------------------------
\* The SchedulerState mutex
\*
\* The handlers by what they do with self.state and the remote service
\* alone.  A handler is the sequence of its lock(), end-of-guard-scope and
\* remote-call points in source order, one sequence per path through it;
\* "send" starts a call through the token coordinator and "recv" is its
\* return.  In SpecLock `calls` is the bag of the handlers under way.
\* ------------------------------------------------------------------------
MaxProcs == 2

\* a scope { let state = self.state.lock().unwrap(); ... }
Section == <<"lock", "unlock">>

\* an .await on call_*_with_retry
Remote == <<"send", "recv">>

\* get_state
get_state_paths == { Section }

\* schedule_next_clock_in: no schedule, scheduling off or a bad clock-in
\* time return before the push; otherwise the push is one scope
schedule_next_clock_in_paths == { <<>>, Section }

\* schedule_clock_out: the read of clock_in_time, then the push
schedule_clock_out_paths == { Section, Section \o Section }

\* start_scheduler
start_scheduler_paths == { Section \o p : p \in schedule_next_clock_in_paths }

\* stop_scheduler
stop_scheduler_paths == { Section }

\* manual_clock_in that holds the state while it asks the remote service
manual_clock_in_paths_held ==
  { <<"lock">> \o Remote \o <<"unlock">> } \cup
  { <<"lock">> \o Remote \o <<"unlock">> \o p : p \in schedule_clock_out_paths }

\* manual_clock_in
manual_clock_in_paths ==
  { Remote } \cup { Remote \o Section \o p : p \in schedule_clock_out_paths }

\* manual_clock_out(bypass_minimum): can_clock_out is asked only without
\* the bypass
manual_clock_out_paths(bypass_minimum) ==
  LET called == { Remote } \cup
                { Remote \o Section \o p : p \in schedule_next_clock_in_paths }
  IN IF bypass_minimum THEN called
     ELSE { Section } \cup { Section \o p : p \in called }

\* check_auto_startup
check_auto_startup_paths ==
  { <<>>, Section } \cup
  { Section \o Remote \o p : p \in
      { <<>>, Section, Section \o Section }
        \cup manual_clock_out_paths(TRUE) \cup manual_clock_in_paths }

\* execute_scheduled_clock_in, execute_scheduled_clock_out
execute_scheduled_paths == { Remote \o Section }

Handlers ==
  { "get_state", "start_scheduler", "stop_scheduler", "manual_clock_in",
    "manual_clock_out(false)", "manual_clock_out(true)", "check_auto_startup",
    "execute_scheduled_clock_in", "execute_scheduled_clock_out" }

Paths(op) ==
  CASE op = "get_state" -> get_state_paths
    [] op = "start_scheduler" -> start_scheduler_paths
    [] op = "stop_scheduler" -> stop_scheduler_paths
    [] op = "manual_clock_in" -> manual_clock_in_paths
    [] op = "manual_clock_out(false)" -> manual_clock_out_paths(FALSE)
    [] op = "manual_clock_out(true)" -> manual_clock_out_paths(TRUE)
    [] op = "check_auto_startup" -> check_auto_startup_paths
    [] OTHER -> execute_scheduled_paths

\* a handler under way: where it stands and whether it holds the guard
Proc(op, path) == [op |-> op, path |-> path, pc |-> 1, holds |-> FALSE]

At(p) == IF p.pc <= Len(p.path) THEN p.path[p.pc] ELSE "end"

Move(p, q) ==
  /\ calls' = (calls (-) One(p)) (+) One(q)
  /\ last' = Quiet
  /\ UNCHANGED <<now, state, schedule, tasks, storage>>

\* a command arrives or a timer fires
Enter(op, path) ==
  /\ BagCardinality(calls) < MaxProcs
  /\ calls' = calls (+) One(Proc(op, path))
  /\ last' = Quiet
  /\ UNCHANGED <<now, state, schedule, tasks, storage>>

\* Mutex::lock: waits while another guard is alive
Acquire(p) ==
  /\ BagIn(p, calls) /\ At(p) = "lock"
  /\ \A q \in BagToSet(calls) : ~q.holds
  /\ Move(p, [p EXCEPT !.pc = @ + 1, !.holds = TRUE])

\* the guard goes out of scope
Release(p) ==
  /\ BagIn(p, calls) /\ At(p) = "unlock"
  /\ Move(p, [p EXCEPT !.pc = @ + 1, !.holds = FALSE])

\* the remote call is sent; the handler is suspended at the .await
Send(p) ==
  /\ BagIn(p, calls) /\ At(p) = "send"
  /\ Move(p, [p EXCEPT !.pc = @ + 1])

\* the remote call returns
Receive(p) ==
  /\ BagIn(p, calls) /\ At(p) = "recv"
  /\ Move(p, [p EXCEPT !.pc = @ + 1])

\* the handler returns; a guard still alive is dropped with it
Finish(p) ==
  /\ BagIn(p, calls) /\ At(p) = "end"
  /\ calls' = calls (-) One(p)
  /\ last' = [op |-> p.op, res |-> "Ok", arg |-> NoArg]
  /\ UNCHANGED <<now, state, schedule, tasks, storage>>

NextLock ==
  \/ \E op \in Handlers : \E path \in Paths(op) : Enter(op, path)
  \/ \E p \in BagToSet(calls) : Acquire(p)
  \/ \E p \in BagToSet(calls) : Release(p)
  \/ \E p \in BagToSet(calls) : Send(p)
  \/ \E p \in BagToSet(calls) : Receive(p)
  \/ \E p \in BagToSet(calls) : Finish(p)

SpecLock == Init /\ [][NextLock]_vars

\* ------------------------------------------------------------------------
\* Arming a clock-out, for clock-in times near and far
\*
\* SpecWait starts from a session that is clocked in since some instant
\* before or after now, under any schedule, and arms clock-outs for it.
\* ------------------------------------------------------------------------
MaxAgo == 8
MaxAhead == 4

\* the clock-in instants tried
ClockInTimes == { k * TickMins : k \in (0 - MaxAgo)..MaxAhead }

InitWait ==
  /\ now = 0
  /\ schedule \in Schedules
  /\ \E T \in ClockInTimes :
       state = [NewState EXCEPT !.current_session =
                  [clocked_in |-> TRUE, clock_in_time |-> Rfc(T),
                   expected_clock_out_time |-> Rfc(T + schedule.min_work_duration_minutes)]]
  /\ tasks = EmptyBag
  /\ calls = EmptyBag
  /\ storage = InitialTokens
  /\ last = [op |-> "new", res |-> "Ok", arg |-> NoArg]

\* schedule_clock_out() for the session as it stands
ArmClockOut ==
  /\ Commit(schedule_clock_out(World, schedule, now))
  /\ last' = [op |-> "schedule_clock_out", res |-> "Ok", arg |-> NoArg]
  /\ UNCHANGED <<now, schedule, calls, storage>>

\* schedule_clock_out_from_external(external_clock_in, expected_clock_out)
ArmExternalClockOut(external_clock_in) ==
  LET expected_clock_out == calculate_clock_out_from_external(external_clock_in, schedule)
  IN /\ expected_clock_out.ok
     /\ Commit(schedule_clock_out_from_external(World, external_clock_in,
                                                expected_clock_out.t, now))
     /\ last' = [op |-> "schedule_clock_out_from_external", res |-> "Ok", arg |-> NoArg]
     /\ UNCHANGED <<now, schedule, calls, storage>>

NextWait ==
  \/ ArmClockOut
  \/ \E T \in ClockInTimes : ArmExternalClockOut(Naive(T + TzOffset))

SpecWait == InitWait /\ [][NextWait]_vars

\* ------------------------------------------------------------------------
\* The daily cycle left to itself: start, the clock, and timers whose
\* remote calls all succeed
\* ------------------------------------------------------------------------
CycleTicks == 4
CycleEnd == CycleTicks * TickMins

\* the wall clock advances, for a day and more
TickCycle ==
  /\ now < CycleEnd
  /\ now' = now + TickMins
  /\ last' = Quiet
  /\ UNCHANGED <<state, schedule, tasks, calls, storage>>

\* the one start of the scenario
StartOnce(sch) == ~state.is_running /\ start_scheduler(sch)

NextCycle ==
  \/ TickCycle
  \/ \E sch \in Schedules : StartOnce(sch)
  \/ \E tk \in BagToSet(tasks) : TimerFire(tk)
  \/ \E tk \in BagToSet(tasks) : TimerReturn(tk, "Ok(true)")

\* time passes, a timer that is due fires, a remote call returns
SpecCycle ==
  /\ Init /\ [][NextCycle]_vars
  /\ WF_vars(TickCycle)
  /\ WF_vars(\E tk \in BagToSet(tasks) : TimerFire(tk))
  /\ WF_vars(\E tk \in BagToSet(tasks) : TimerReturn(tk, "Ok(true)"))

\* ------------------------------------------------------------------------
\* A day with one start and manual clock-ins, whose remote calls succeed
\* ------------------------------------------------------------------------
NextDay ==
  \/ TickCycle
  \/ \E sch \in Schedules : StartOnce(sch)
  \/ manual_clock_in_call
  \/ \E c \in BagToSet(calls) : manual_clock_in_return(c, "Ok(true)")
  \/ \E tk \in BagToSet(tasks) : TimerFire(tk)
  \/ \E tk \in BagToSet(tasks) : TimerReturn(tk, "Ok(true)")

SpecDay == Init /\ [][NextDay]_vars

\* ------------------------------------------------------------------------
\* The three mutexes
\*
\* SpecOrder follows what each entry point of the scheduler does to its
\* three std::sync::Mutex cells (state, schedule, task_handles): the
\* lock() calls and the ends of the guards' scopes in source order, with
\* the .await points on the remote service between them, one sequence per
\* path.  In SpecOrder `calls` is the bag of the threads under way.
\* ------------------------------------------------------------------------
Mutexes == {"state", "schedule", "task_handles"}

Lock(m) == [do |-> "lock", m |-> m]
Drop(m) == [do |-> "drop", m |-> m]
Await == <<[do |-> "send", m |-> "-"], [do |-> "recv", m |-> "-"]>>

\* { let guard = self.m.lock().unwrap(); ... }
Scope(m) == <<Lock(m), Drop(m)>>

\* let state = self.state.lock().unwrap();
\* let schedule = self.schedule.lock().unwrap();
\* the guards are dropped in the reverse order of their declaration
StateThenSchedule ==
  <<Lock("state"), Lock("schedule"), Drop("schedule"), Drop("state")>>

\* a can_clock_out that takes the schedule first
can_clock_out_locks_reversed ==
  <<Lock("schedule"), Lock("state"), Drop("state"), Drop("schedule")>>

\* can_clock_out
can_clock_out_locks == StateThenSchedule

\* cancel_all_tasks
cancel_all_tasks_locks == Scope("task_handles")

\* calculate_expected_clock_out_time: the schedule is read only when the
\* clock-in time parses
calculate_expected_clock_out_time_locks == { <<>>, Scope("schedule") }

\* calculate_clock_out_from_external: a timestamp that does not parse
\* returns before the schedule is read
calculate_clock_out_from_external_locks == { <<>>, Scope("schedule") }

\* schedule_next_clock_in: the schedule is cloned; then either an early
\* return, or the push and the insert of the handle
schedule_next_clock_in_locks ==
  { Scope("schedule"),
    Scope("schedule") \o Scope("state") \o Scope("task_handles") }

\* schedule_clock_out
schedule_clock_out_locks ==
  { StateThenSchedule } \cup
  { StateThenSchedule \o c \o Scope("state") \o Scope("task_handles") :
      c \in calculate_expected_clock_out_time_locks }

\* schedule_clock_out_from_external
schedule_clock_out_from_external_locks == Scope("state") \o Scope("task_handles")

\* start_scheduler
start_scheduler_locks ==
  { Scope("schedule") \o Scope("state") \o cancel_all_tasks_locks \o p :
      p \in { <<>> } \cup schedule_next_clock_in_locks }

\* stop_scheduler
stop_scheduler_locks == Scope("state") \o cancel_all_tasks_locks

\* manual_clock_in
manual_clock_in_locks ==
  { Await } \cup
  { Await \o Scope("schedule") \o Scope("state") \o p : p \in schedule_clock_out_locks }

\* manual_clock_out(bypass_minimum)
manual_clock_out_locks(bypass_minimum) ==
  LET called == { Await } \cup
                { Await \o Scope("state") \o p : p \in schedule_next_clock_in_locks }
  IN IF bypass_minimum THEN called
     ELSE { can_clock_out_locks } \cup { can_clock_out_locks \o p : p \in called }

\* check_auto_startup
check_auto_startup_locks ==
  LET started ==
        { c \o p : c \in calculate_clock_out_from_external_locks,
                   p \in manual_clock_out_locks(TRUE) } \cup
        { c \o Scope("state") \o p : c \in calculate_clock_out_from_external_locks,
                   p \in { <<>>, schedule_clock_out_from_external_locks } }
  IN { <<>>, Scope("state") } \cup
     { Scope("state") \o Await \o p : p \in
         { <<>>, Scope("state") } \cup started \cup manual_clock_in_locks }

\* execute_scheduled_clock_in: a clock-in that succeeded reads the schedule
\* inside the scope of the state guard
execute_scheduled_clock_in_locks ==
  { Await \o Scope("state"), Await \o StateThenSchedule }

\* execute_scheduled_clock_out
execute_scheduled_clock_out_locks == { Await \o Scope("state") }

EntryPoints ==
  { "get_state", "can_clock_out", "start_scheduler", "stop_scheduler",
    "manual_clock_in", "manual_clock_out(false)", "manual_clock_out(true)",
    "check_auto_startup", "execute_scheduled_clock_in",
    "execute_scheduled_clock_out" }

LockPaths(op) ==
  CASE op = "get_state" -> { Scope("state") }
    [] op = "can_clock_out" -> { can_clock_out_locks }
    [] op = "start_scheduler" -> start_scheduler_locks
    [] op = "stop_scheduler" -> { stop_scheduler_locks }
    [] op = "manual_clock_in" -> manual_clock_in_locks
    [] op = "manual_clock_out(false)" -> manual_clock_out_locks(FALSE)
    [] op = "manual_clock_out(true)" -> manual_clock_out_locks(TRUE)
    [] op = "check_auto_startup" -> check_auto_startup_locks
    [] op = "execute_scheduled_clock_in" -> execute_scheduled_clock_in_locks
    [] OTHER -> execute_scheduled_clock_out_locks

\* a thread under way: where it stands and the guards it holds
Thread(op, path) == [op |-> op, path |-> path, pc |-> 1, holds |-> {}]

Idle == [do |-> "end", m |-> "-"]

Pos(p) == IF p.pc <= Len(p.path) THEN p.path[p.pc] ELSE Idle

\* the mutexes some thread holds a guard of
Held == UNION { p.holds : p \in BagToSet(calls) }

Go(p, q) ==
  /\ calls' = (calls (-) One(p)) (+) One(q)
  /\ last' = Quiet
  /\ UNCHANGED <<now, state, schedule, tasks, storage>>

\* the host calls a command or a timer task wakes up
Arrive(op, path) ==
  /\ BagCardinality(calls) < MaxProcs
  /\ calls' = calls (+) One(Thread(op, path))
  /\ last' = Quiet
  /\ UNCHANGED <<now, state, schedule, tasks, storage>>

\* Mutex::lock returns once no guard of the mutex is alive; std's Mutex is
\* not reentrant
TakeLock(p) ==
  /\ BagIn(p, calls) /\ Pos(p).do = "lock"
  /\ Pos(p).m \notin Held
  /\ Go(p, [p EXCEPT !.pc = @ + 1, !.holds = @ \cup {Pos(p).m}])

\* the guard goes out of scope
DropGuard(p) ==
  /\ BagIn(p, calls) /\ Pos(p).do = "drop"
  /\ Go(p, [p EXCEPT !.pc = @ + 1, !.holds = @ \ {Pos(p).m}])

\* the remote call is sent and the thread is suspended at the .await
Suspend(p) ==
  /\ BagIn(p, calls) /\ Pos(p).do = "send"
  /\ Go(p, [p EXCEPT !.pc = @ + 1])

\* the remote call returns
Resume(p) ==
  /\ BagIn(p, calls) /\ Pos(p).do = "recv"
  /\ Go(p, [p EXCEPT !.pc = @ + 1])

\* the entry point returns
Leave(p) ==
  /\ BagIn(p, calls) /\ Pos(p).do = "end"
  /\ calls' = calls (-) One(p)
  /\ last' = [op |-> p.op, res |-> "Ok", arg |-> NoArg]
  /\ UNCHANGED <<now, state, schedule, tasks, storage>>

NextOrder ==
  \/ \E op \in EntryPoints : \E path \in LockPaths(op) : Arrive(op, path)
  \/ \E p \in BagToSet(calls) : TakeLock(p)
  \/ \E p \in BagToSet(calls) : DropGuard(p)
  \/ \E p \in BagToSet(calls) : Suspend(p)
  \/ \E p \in BagToSet(calls) : Resume(p)
  \/ \E p \in BagToSet(calls) : Leave(p)

SpecOrder == Init /\ [][NextOrder]_vars

\* ------------------------------------------------------------------------
\* Vocabulary of the properties
\* ------------------------------------------------------------------------
Session == state.current_session
Ops == state.pending_operations

\* the instant a stored clock-in timestamp denotes: a timestamp without an
\* offset is local time
InstantOf(s) == IF s.fmt = "naive" THEN s.t - TzOffset ELSE s.t

\* a timer task of the given kind that has not fired yet
Sleeping(type) == {t \in BagToSet(tasks) : t.kind = type /\ t.pc = "sleep"}

\* a pending operation of the given kind and deadline is listed and a live
\* timer task stands behind it
Armed(type, deadline) ==
  \E i \in 1..Len(Ops) :
    /\ Ops[i].operation_type = type
    /\ Ops[i].status = "pending"
    /\ Ops[i].scheduled_time = Rfc(deadline)
    /\ \E t \in BagToSet(tasks) : t.kind = type /\ t.id = Ops[i].id

TimerOps == {"execute_scheduled_clock_in", "execute_scheduled_clock_out"}

\* C1: after a clock-in timer fired and the remote clock-in succeeded, the
\* operation is completed, the session is clocked in since now with the
\* clock-out expected min_work_duration_minutes later, and a clock-out timer
\* is armed for that deadline.
AutoClockInArmsClockOut ==
  (last.op = "execute_scheduled_clock_in" /\ last.res = "Ok(true)") =>
    LET i == FindOp(Ops, last.arg)
        deadline == now + schedule.min_work_duration_minutes
    IN /\ i # 0
       /\ Ops[i].status = "completed"
       /\ Session = [clocked_in |-> TRUE, clock_in_time |-> Rfc(now),
                     expected_clock_out_time |-> Rfc(deadline)]
       /\ Armed("ClockOut", deadline)

\* C2: after a clock-out timer fired and the remote clock-out succeeded, the
\* operation is completed, the session is reset, and with automatic
\* scheduling enabled the next clock-in timer is armed.
AutoClockOutArmsNextClockIn ==
  (last.op = "execute_scheduled_clock_out" /\ last.res = "Ok(true)") =>
    LET i == FindOp(Ops, last.arg)
    IN /\ i # 0
       /\ Ops[i].status = "completed"
       /\ Session = [clocked_in |-> FALSE, clock_in_time |-> None,
                     expected_clock_out_time |-> None]
       /\ schedule.auto_schedule_enabled =>
            Armed("ClockIn", get_next_clock_in_time(schedule, now).t)

\* what a step in which the remote call of a timer fails is to do
FailedTimerStep ==
  (last'.op \in TimerOps /\ last'.res # "Ok(true)") =>
    LET ops == state'.pending_operations
        i == FindOp(ops, last'.arg)
    IN /\ i # 0
       /\ ops[i].status = "failed"
       /\ ops[i].error_message # "None"
       /\ state'.current_session = state.current_session
       /\ Len(ops) = Len(state.pending_operations)
       /\ BagCardinality(tasks') < BagCardinality(tasks)
       /\ Sleeping("ClockIn")' \subseteq Sleeping("ClockIn")
       /\ Sleeping("ClockOut")' \subseteq Sleeping("ClockOut")
       /\ calls' = calls

\* C3: a step in which a timer's remote call fails marks the operation
\* failed with an error message, leaves the session as it was, arms no timer
\* and starts no remote call.
FailedTimerIsRecordedAndNotRetried == [][FailedTimerStep]_vars

\* the deadline C4 states: today at clock_in_time if that is strictly in
\* the future, the same time tomorrow otherwise
ClaimedClockIn(sch, t) ==
  LET midnight == ((t + TzOffset) \div MinsPerDay) * MinsPerDay - TzOffset
      today == midnight + sch.clock_in_time[1] * 60 + sch.clock_in_time[2]
  IN IF today > t THEN today ELSE today + MinsPerDay

\* what a step in which start_scheduler returns Ok is to do
StartStep ==
  (last'.op = "start_scheduler" /\ last'.res = "Ok") =>
    LET ops == state'.pending_operations
        deadline == ClaimedClockIn(schedule', now)
    IN IF schedule'.auto_schedule_enabled
       THEN /\ Len(ops) = Len(state.pending_operations) + 1
            /\ ops[Len(ops)] = PendingOp(ClockInId(deadline), "ClockIn", Rfc(deadline))
            /\ BagIn(Task("ClockIn", ClockInId(deadline), deadline), tasks')
            /\ deadline > now
            /\ deadline <= now + MinsPerDay
       ELSE /\ ops = state.pending_operations
            /\ tasks' \sqsubseteq tasks

Elapsed == now - InstantOf(Session.clock_in_time)

InSession == Session.clocked_in /\ Session.clock_in_time # None /\ schedule # NoSchedule

\* C5: manual_clock_out(false) is refused while less than
\* min_work_duration_minutes have elapsed since the clock-in of the session,
\* and goes on to the remote call once they have.
ManualClockOutRefusedUntilMinimum ==
  InSession =>
    (can_clock_out(state, schedule, now) <=> Elapsed >= schedule.min_work_duration_minutes)

\* C6: after a successful manual clock-in no clock-in timer is left to fire.
ManualClockInAbortsClockInTimers ==
  (last.res = "Ok(true)" /\ last.arg = Arg("manual_clock_in")) => Sleeping("ClockIn") = {}

\* C7: after a successful manual clock-out no clock-out timer is left to
\* fire.
ManualClockOutAbortsClockOutTimers ==
  (last.res = "Ok(true)" /\ last.arg = Arg("manual_clock_out")) => Sleeping("ClockOut") = {}

\* a call of the coordinator that has returned in the last step
Returned == last.op = "api_with_shared_tokens"

Operations(c) == {i \in 1..Len(c.log) : c.log[i].call = "operation"}
Exchanges(c) == {i \in 1..Len(c.log) : c.log[i].call = "exchange"}

\* the first call of the operation failed with the error text e
FirstFailed(c) ==
  /\ Len(c.log) >= 1
  /\ c.log[1].call = "operation"
  /\ c.log[1].res.tag = "Err"

\* ... with a token error, and nothing the call did after that failed
TokenErrorThenAllWell(c) ==
  /\ FirstFailed(c)
  /\ is_token_error(c.log[1].res.error)
  /\ \A i \in 2..Len(c.log) : c.log[i].res.tag = "Ok"

\* C8: a call whose first attempt fails with a token error, and whose
\* exchange, writes to the store and retry succeed, makes exactly one
\* exchange, stores the pair it returned under the two fixed keys, retries
\* exactly once with the access token of that pair and returns the result
\* of the retry.
TokenErrorRefreshesAndRetriesOnce ==
  (Returned /\ TokenErrorThenAllWell(last.arg)) =>
    LET log == last.arg.log IN
    /\ Len(log) = 5
    /\ log[2].call = "exchange"
    /\ log[3].call = "store"
    /\ log[3].arg = <<REFRESH_TOKEN_KEY, log[2].res.value.refresh_token>>
    /\ log[4].call = "store"
    /\ log[4].arg = <<ACCESS_TOKEN_KEY, log[2].res.value.access_token>>
    /\ log[5].call = "operation"
    /\ log[5].arg = log[2].res.value.access_token
    /\ last.res = log[5].res

\* C8 witness: a call returned the success of its retry
RetrySucceeded ==
  /\ Returned
  /\ TokenErrorThenAllWell(last.arg)
  /\ Len(last.arg.log) = 5
  /\ last.res = Ok(TRUE)
  /\ last.arg.log[5].arg # last.arg.log[1].arg

NonTokenError(c) == FirstFailed(c) /\ ~is_token_error(c.log[1].res.error)

\* C9 as the specification states it: after a first failure that is no
\* token error the call does nothing more and returns the error it got,
\* unchanged.
NonTokenErrorReturnedUnchanged ==
  (Returned /\ NonTokenError(last.arg)) =>
    /\ Len(last.arg.log) = 1
    /\ last.res.tag = "Err"
    /\ last.res.error.message = last.arg.log[1].res.error

\* C9: after a first failure that is no token error the call makes no
\* exchange, writes nothing to the store, does not retry, and returns an
\* API error with status 500 whose message is the name of the operation,
\* " failed: " and the text of the error it got.
NonTokenErrorReturnedWrapped ==
  (Returned /\ NonTokenError(last.arg)) =>
    /\ Len(last.arg.log) = 1
    /\ last.res.tag = "Err"
    /\ last.res.error.type = "Api"
    /\ last.res.error.status_code = 500
    /\ last.res.error.message = last.arg.operation_name \o Tfailed \o last.arg.log[1].res.error

\* C9 witness: a call returned after an error that is no token error
NonTokenErrorReturned ==
  /\ Returned
  /\ NonTokenError(last.arg)
  /\ last.arg.log[1].res.error = TUNAUTHORIZED

\* the calls of the coordinator: those in flight and the one that returned
\* in the last step
Coordinators == BagToSet(calls) \cup (IF Returned THEN {last.arg} ELSE {})

Invocations(c) == Cardinality(Operations(c)) + (IF c.pc \in {"operation", "retry"} THEN 1 ELSE 0)

AtMostOneRetry(c) ==
  /\ Invocations(c) <= 2
  /\ Cardinality(Exchanges(c)) + (IF c.pc = "exchange" THEN 1 ELSE 0) <= 1
  \* a second invocation only after a token error and a refresh that succeeded
  /\ (Invocations(c) = 2) =>
       /\ Len(c.log) >= 4
       /\ TokenErrorThenAllWell([c EXCEPT !.log = SubSeq(@, 1, 4)])
       /\ c.log[2].call = "exchange"
       /\ c.log[3].call = "store"
       /\ c.log[4].call = "store"
  \* the second invocation is the last thing the call does
  /\ \A i \in Operations(c) : i > 1 => (i = Len(c.log) /\ c.pc = "done")
  \* a failed refresh ends the call
  /\ \A i \in 1..Len(c.log) :
       (c.log[i].call # "operation" /\ c.log[i].res.tag = "Err") => (i = Len(c.log) /\ c.pc = "done")

\* C10: a call of the coordinator invokes the operation at most twice and
\* exchanges at most once; it invokes a second time only after a first
\* failure with a token error and a refresh that succeeded; the result of
\* the second invocation is what the call returns, success or failure; a
\* failed refresh ends the call without a retry.
CoordinatorIsBounded ==
  /\ \A c \in Coordinators : AtMostOneRetry(c)
  /\ Returned =>
       \A i \in Operations(last.arg) : i > 1 =>
         /\ last.res.tag = last.arg.log[i].res.tag
         /\ last.res.tag = "Ok" => last.res = last.arg.log[i].res
         /\ last.res.tag = "Err" => Contains(last.res.error.message, last.arg.log[i].res.error)

\* C10 witness: a call returned the failure of its retry
RetryFailed ==
  /\ Returned
  /\ Cardinality(Operations(last.arg)) = 2
  /\ last.res.tag = "Err"

\* C11: a call of the coordinator that finds no access token stored
\* returns an authentication error at once: it is never in flight, it calls
\* neither the operation nor the exchange, and it writes nothing.
NoAccessTokenFailsAtOnce ==
  \A c \in Coordinators :
    c.access_token = 0 =>
      /\ c.pc = "done"
      /\ \A i \in 1..Len(c.log) : c.log[i].call = "retrieve"
      /\ c.log = <<>> =>
           /\ last.res.tag = "Err"
           /\ last.res.error.type = "Authentication"
           /\ last.res.error.message = TNoAccessToken

\* C11 witness: a call returned for want of an access token
ReturnedForWantOfToken ==
  /\ Returned
  /\ storage.access_token = 0
  /\ last.arg.log = <<>>
  /\ last.res.tag = "Err"

\* C12: whenever no call stands between its two writes, the stored refresh
\* token and access token are of one pair: the initial one or the response
\* of one exchange.
StoredPairIssuedTogether ==
  (\A c \in BagToSet(calls) : c.pc # "store access_token") =>
    storage.refresh_token = 0 - storage.access_token

\* C13: after stop_scheduler has returned the scheduler is not running, no
\* operation is listed and no timer task is left that could fire or is in
\* its remote call.
StopLeavesNothingArmed ==
  last.op = "stop_scheduler" =>
    /\ ~state.is_running
    /\ Ops = <<>>
    /\ tasks = EmptyBag

\* C14: stop_scheduler returns Ok, and a second stop_scheduler right after
\* the first changes nothing: after either the scheduler is not running, no
\* operation is listed and the session is as it was before the first.
StopIsIdempotent ==
  LET once == stopped(World)
      twice == stopped(once)
  IN /\ twice = once
     /\ ~once.st.is_running
     /\ once.st.pending_operations = <<>>
     /\ once.st.current_session = Session
     /\ last.op = "stop_scheduler" => (last.res = "Ok" /\ stopped(World) = World)

\* C14 witness: stop_scheduler returned while a session was open
StoppedInSession ==
  /\ last.op = "stop_scheduler"
  /\ Session.clocked_in
  /\ stopped(World) = World

\* the timer tasks that are in their remote call
InCall(bag) == {t \in BagToSet(bag) : t.pc = "call"}
NumInCall(bag) == BagCardinality(bag) - BagCardinality([t \in BagToSet(bag) \ InCall(bag) |-> bag[t]])

\* what a step is to do for the timers that are in their remote call: no
\* step but the timer's own return ends one, and the return records the
\* outcome in the operation of the timer
RaceFreeStep ==
  /\ last'.op \notin TimerOps => NumInCall(tasks') >= NumInCall(tasks)
  /\ last'.op \in TimerOps =>
       LET ops == state'.pending_operations
           i == FindOp(ops, last'.arg)
       IN i # 0 /\ ops[i].status \in {"completed", "failed"}

\* C15: a timer that has begun its remote call when stop_scheduler,
\* start_scheduler or a manual operation cancels runs to its end and records
\* its own outcome.
CancellationIsRaceFree == [][RaceFreeStep]_vars

\* C16: when the session is not clocked in, it holds neither a clock-in
\* time nor an expected clock-out time.
ClosedSessionHoldsNoTimes ==
  ~Session.clocked_in =>
    (Session.clock_in_time = None /\ Session.expected_clock_out_time = None)

\* C17: when the session is clocked in, it holds a clock-in time.
OpenSessionHoldsClockInTime ==
  Session.clocked_in => Session.clock_in_time # None

\* C17 witness: the session was opened by adopting a remote clock-in and
\* is still open after a timer has returned
AdoptedSessionOpen ==
  /\ Session.clocked_in
  /\ Session.clock_in_time.fmt = "naive"
  /\ last.op \in TimerOps

\* the number of live timer tasks of the given kind, sleeping or in their
\* remote call, whether or not task_handles still holds their handle
NumLive(type) ==
  BagCardinality([t \in {u \in BagToSet(tasks) : u.kind = type} |-> tasks[t]])

\* C18: at every moment there is at most one live, unresolved timer task of
\* each kind: at most one for ClockIn and at most one for ClockOut.
OneLiveTimerPerKind == NumLive("ClockIn") <= 1 /\ NumLive("ClockOut") <= 1

\* a live timer task stands behind the listed operation
HasLiveTimer(op) ==
  \E t \in BagToSet(tasks) : t.id = op.id /\ t.kind = op.operation_type

\* C19: when start_scheduler has returned, every operation listed as pending
\* has a live timer task behind it, and a session that is clocked in with a
\* pending clock-out has a live clock-out timer task.
StartReschedulesPending ==
  last.op = "start_scheduler" =>
    /\ \A i \in 1..Len(Ops) : Ops[i].status = "pending" => HasLiveTimer(Ops[i])
    /\ (Session.clocked_in /\ has_pending_clock_out(state)) => NumLive("ClockOut") >= 1

\* the work duration reconciliation reckons with: the schedule's, or the
\* default of nine hours when no schedule is stored
ExternalWorkMins ==
  IF schedule # NoSchedule THEN schedule.min_work_duration_minutes ELSE DefaultExternalMins

\* what the return of the attendance call must have done when the record is
\* "Started" with a clock-in at T, no clock-out, and now before T + duration
AdoptionStep ==
  \A c \in BagToSet(calls), r \in AttendanceResults(now) :
    ( /\ attendance_return(c, r)
      /\ r.res = "Ok(Some)"
      /\ ~r.item.is_restday
      /\ r.item.attendance_status = "Started"
      /\ r.item.date_time_in # None
      /\ r.item.date_time_out = None
      /\ now < InstantOf(r.item.date_time_in) + ExternalWorkMins ) =>
        LET T == InstantOf(r.item.date_time_in)
            deadline == T + ExternalWorkMins
            session == state'.current_session
            ops == state'.pending_operations
        IN /\ calls' = calls (-) One(c)
           /\ last'.op = "check_auto_startup" /\ last'.res = "Ok(false)"
           /\ IF has_pending_clock_out(state)
              THEN state' = state /\ tasks' = tasks
              ELSE /\ session.clocked_in
                   /\ session.clock_in_time # None /\ InstantOf(session.clock_in_time) = T
                   /\ session.expected_clock_out_time = Rfc(deadline)
                   /\ \E i \in 1..Len(ops) :
                        /\ ops[i].operation_type = "ClockOut"
                        /\ ops[i].status = "pending"
                        /\ ops[i].scheduled_time = Rfc(deadline)
                        /\ \E t \in BagToSet(tasks') :
                             /\ t.id = ops[i].id /\ t.kind = "ClockOut" /\ t.pc = "sleep"
                             /\ tasks'[t] > (IF BagIn(t, tasks) THEN tasks[t] ELSE 0)
                             /\ (deadline - now <= MinsPerDay) => t.wake = deadline

\* C20: reconciliation finds the remote record "Started" with a clock-in at
\* T and no clock-out, before T + min_work_duration_minutes.  With no
\* clock-out pending it lists a clock-out for exactly T + duration and arms
\* its timer, and the session becomes clocked in since T with the clock-out
\* expected at T + duration; with a clock-out pending nothing changes.
\* Either way no remote clock-in is issued and the check returns Ok(false).
ReconciliationAdoptsExternalClockIn == [][AdoptionStep]_vars

\* C20 witness: the check has just adopted an external clock-in
AdoptedExternalClockIn ==
  /\ last.op = "check_auto_startup" /\ last.arg = Arg("adopt")
  /\ Session.clocked_in
  /\ has_pending_clock_out(state)
  /\ NumLive("ClockOut") >= 1

\* the remote record is "Started" with a clock-in and no clock-out, and now
\* is at or past the clock-in plus the work duration
ExternalOverdue(r) ==
  /\ r.res = "Ok(Some)"
  /\ ~r.item.is_restday
  /\ r.item.attendance_status = "Started"
  /\ r.item.date_time_in # None
  /\ r.item.date_time_out = None
  /\ now >= InstantOf(r.item.date_time_in) + ExternalWorkMins

\* what the overdue branch of the check is to do: first issue the remote
\* clock-out and nothing else; then, when that call returns, report true if
\* it succeeded and something else if it did not
OverdueStep ==
  /\ \A c \in BagToSet(calls), r \in AttendanceResults(now) :
       (attendance_return(c, r) /\ ExternalOverdue(r)) =>
         /\ calls' = (calls (-) One(c)) (+) One(Call("clock_out", "check"))
         /\ state' = state /\ tasks' = tasks
  /\ \A c \in BagToSet(calls), result \in CallResults :
       (manual_clock_out_return(c, result) /\ c.from = "check") =>
         /\ last'.op = "check_auto_startup"
         /\ (last'.res = "Ok(true)") <=> (result = "Ok(true)")
         /\ \A d \in BagToSet(calls') : d.pc # "clock_in"

\* C21: when reconciliation finds an external clock-in whose work duration
\* is already over, it issues a remote clock-out at once without asking
\* can_clock_out, issues no clock-in, and returns Ok(true) exactly when that
\* clock-out succeeded.
OverdueExternalIsClockedOut == [][OverdueStep]_vars

\* what the check is to do when it has nothing to do: without an access
\* token, or with the session clocked in, it returns before any remote
\* call; on a rest day or on leave it returns after the attendance call
ShortCircuitStep ==
  /\ (check_auto_startup_call /\ (~HasAccessToken \/ Session.clocked_in)) =>
       /\ calls' = calls
       /\ state' = state /\ tasks' = tasks
       /\ last'.op = "check_auto_startup" /\ last'.res = "Ok(false)"
  /\ \A c \in BagToSet(calls), r \in AttendanceResults(now) :
       ( /\ attendance_return(c, r)
         /\ r.res = "Ok(Some)"
         /\ r.item.is_restday \/ r.item.attendance_status = "On leave" ) =>
           /\ calls' = calls (-) One(c)
           /\ state' = state /\ tasks' = tasks
           /\ last'.op = "check_auto_startup" /\ last'.res = "Ok(false)"

\* C22: without a stored access token, or with the session already clocked
\* in, the check issues no remote call; on a rest day or on leave it issues
\* no clock-in and no clock-out; in all four cases the session, the
\* operations and the timers stay as they are and the check returns
\* Ok(false).
ReconciliationShortCircuits == [][ShortCircuitStep]_vars

\* C22 witness: the check has returned early for a session that is clocked
\* in and has a timer armed
SkippedWhileClockedIn ==
  /\ last.op = "check_auto_startup" /\ last.arg = Arg("clocked in")
  /\ Session.clocked_in
  /\ tasks # EmptyBag

\* the attendance call gave nothing that keeps the check from clocking in:
\* it failed, or there is no record for today, or the record is neither a
\* rest day nor on leave nor completed nor started
NothingInTheWay(r) ==
  \/ r.res \in {"Err", "Ok(None)"}
  \/ /\ r.res = "Ok(Some)"
     /\ ~r.item.is_restday
     /\ r.item.attendance_status \notin {"On leave", "Completed", "Started"}

\* what the check is to do then: issue one remote clock-in, and when it
\* returns act as manual_clock_in does and pass its result on
ProceedStep ==
  /\ \A c \in BagToSet(calls), r \in AttendanceResults(now) :
       (attendance_return(c, r) /\ NothingInTheWay(r)) =>
         /\ calls' = (calls (-) One(c)) (+) One(Call("clock_in", "check"))
         /\ state' = state /\ tasks' = tasks
  /\ \A c \in BagToSet(calls), result \in CallResults :
       (manual_clock_in_return(c, result) /\ c.from = "check") =>
         /\ last'.op = "check_auto_startup" /\ last'.res = result
         /\ calls' = calls (-) One(c)
         /\ IF result = "Ok(true)"
            THEN /\ state'.current_session.clocked_in
                 /\ state'.current_session.clock_in_time = Rfc(now)
            ELSE state' = state /\ tasks' = tasks

\* C23: when the attendance call fails, or finds no record for today, or
\* finds a record that is neither rest day, on leave, completed nor an
\* external clock-in, the check makes one clock-in attempt as manual_clock_in
\* does and returns what that attempt returned.
FailedFetchIsNotFatal == [][ProceedStep]_vars

\* C23 witness: the check clocked in after its attendance call
CheckClockedIn ==
  /\ last.op = "check_auto_startup" /\ last.arg = Arg("manual_clock_in")
  /\ last.res = "Ok(true)"
  /\ Session.clocked_in /\ Session.clock_in_time = Rfc(now)

\* C24: a handler that holds the SchedulerState guard is never suspended
\* in a remote call: all it can do next is let the guard go.  So whoever
\* waits for the lock, get_state included, never waits for a round trip.
NoRemoteCallUnderLock ==
  \A p \in BagToSet(calls) : p.holds => At(p) = "unlock"

\* C24 witness: get_state holds the guard while the remote call of another
\* handler is in flight
SnapshotDuringRemoteCall ==
  \E p, q \in BagToSet(calls) :
    /\ p.op = "get_state" /\ p.holds
    /\ q.op = "manual_clock_in" /\ At(q) = "recv"

Terminal(op) == op.status \in {"completed", "failed", "cancelled"}

\* the operations of a list that are terminal, in their order
Resolved(ops) == SelectSeq(ops, Terminal)

RECURSIVE IsSubSeq(_, _)
\* s is what is left of t when some of its elements are taken out
IsSubSeq(s, t) ==
  IF s = <<>> THEN TRUE
  ELSE IF t = <<>> THEN FALSE
  ELSE IF Head(s) = Head(t) THEN IsSubSeq(Tail(s), Tail(t))
  ELSE IsSubSeq(s, Tail(t))

\* a step other than stop_scheduler, which empties the list, keeps every
\* terminal operation as it stands; a timer that returns writes in place
TerminalStep ==
  last'.op # "stop_scheduler" =>
    /\ IsSubSeq(Resolved(state.pending_operations), state'.pending_operations)
    /\ last'.op \in TimerOps =>
         \A i \in 1..Len(state.pending_operations) :
           Terminal(state.pending_operations[i]) =>
             state'.pending_operations[i] = state.pending_operations[i]

\* C25: once an operation is completed, failed or cancelled, no timer,
\* manual operation, start or check changes its status, actual_time or
\* error_message, also when another operation with the same id is listed.
TerminalOperationsAreFinal == [][TerminalStep]_vars

\* C26: the operation list stays below a fixed bound.  The bound tried is
\* the room MaxOps the model gives the list, whatever MaxOps is set to: a
\* list that is bounded by the program never fills it.
OperationListIsBounded == Len(Ops) < MaxOps

\* the wait C27 states for a delay of d seconds
ClaimedWait(d) == IF d <= 0 THEN 1 ELSE IF d > 86400 THEN 43200 ELSE d

\* delays around the two thresholds and between them, in seconds
DelaySecs ==
  { 0 - LongDelaySecs, 0 - 1, 0, 1, SecsPerMin - 1, CappedDelaySecs,
    LongDelaySecs - 1, LongDelaySecs, LongDelaySecs + 1, 2 * LongDelaySecs }

\* C27: the wait of a clock-out timer for a delay of d seconds is 1 second
\* when d <= 0, 43200 seconds when d > 86400 and d otherwise, so it lies in
\* 1..86400; every clock-out timer armed, after a clock-in or for an
\* external clock-in, wakes after the wait that rule gives for its deadline.
ClockOutWaitIsClamped ==
  /\ \A d \in DelaySecs :
       /\ ClockOutWaitSecs(d) = ClaimedWait(d)
       /\ ClockOutWaitSecs(d) >= 1 /\ ClockOutWaitSecs(d) <= 86400
  /\ \A t \in BagToSet(tasks) :
       t.kind = "ClockOut" =>
         \E i \in 1..Len(Ops) :
           /\ Ops[i].id = t.id
           /\ t.wake = now + ClaimedWait((Ops[i].scheduled_time.t - now) * SecsPerMin) \div SecsPerMin

\* C27 witness: clock-outs are armed for a deadline more than a day ahead,
\* which wakes after twelve hours, and for a deadline that is past, which
\* wakes at once
CappedAndDueArmed ==
  /\ \E t \in BagToSet(tasks), i \in 1..Len(Ops) :
       /\ t.kind = "ClockOut" /\ Ops[i].id = t.id
       /\ Ops[i].scheduled_time.t > now + MinsPerDay
       /\ t.wake = now + CappedDelaySecs \div SecsPerMin
  /\ \E t \in BagToSet(tasks), i \in 1..Len(Ops) :
       /\ t.kind = "ClockOut" /\ Ops[i].id = t.id
       /\ Ops[i].scheduled_time.t <= now
       /\ t.wake = now

\* C28: a session adopted from a remote clock-in whose timestamp T carries
\* no offset is read as local time by can_clock_out as well: under a stored
\* schedule can_clock_out is true exactly when now >= T +
\* min_work_duration_minutes.
AdoptedClockInReadAlike ==
  ( /\ Session.clocked_in
    /\ Session.clock_in_time.fmt = "naive"
    /\ schedule # NoSchedule ) =>
      ( can_clock_out(state, schedule, now)
          <=> now >= InstantOf(Session.clock_in_time) + schedule.min_work_duration_minutes )

UpperCase ==
  <<"A", "B", "C", "D", "E", "F", "G", "H", "I", "J", "K", "L", "M",
    "N", "O", "P", "Q", "R", "S", "T", "U", "V", "W", "X", "Y", "Z">>
LowerCase ==
  <<"a", "b", "c", "d", "e", "f", "g", "h", "i", "j", "k", "l", "m",
    "n", "o", "p", "q", "r", "s", "t", "u", "v", "w", "x", "y", "z">>

\* a text with its capital letters made small
to_lowercase(text) ==
  [i \in 1..Len(text) |->
     IF \E k \in 1..Len(UpperCase) : UpperCase[k] = text[i]
     THEN LowerCase[CHOOSE k \in 1..Len(UpperCase) : UpperCase[k] = text[i]]
     ELSE text[i]]

Ttoken == <<"t", "o", "k", "e", "n">>

\* the classification C29 states: one of the markers occurs in the text,
\* capitals or not
ClaimedTokenError(msg) ==
  LET text == to_lowercase(msg)
  IN \/ Contains(text, T401)
     \/ Contains(text, Tunauthorized)
     \/ Contains(text, Tinvalid_token)
     \/ Contains(text, Ttoken_expired)
     \/ (Contains(text, Ttoken) /\ Contains(text, Texpired))

\* C29: the error text a first attempt failed with is taken for a token
\* error exactly when it contains, ignoring case, 401, unauthorized,
\* invalid_token, token_expired, or both token and expired.
TokenErrorIgnoresCase ==
  (Returned /\ FirstFailed(last.arg)) =>
    ( is_token_error(last.arg.log[1].res.error)
        <=> ClaimedTokenError(last.arg.log[1].res.error) )

\* the number of live timer tasks of the operation's id and kind
NumTimers(op) ==
  BagCardinality([t \in {u \in BagToSet(tasks) : u.id = op.id /\ u.kind = op.operation_type}
                    |-> tasks[t]])

\* C30: every operation listed as pending has exactly one live timer task,
\* and every live timer task has its operation listed as pending.
PendingMatchesTimers ==
  /\ \A i \in 1..Len(Ops) : Ops[i].status = "pending" => NumTimers(Ops[i]) = 1
  /\ \A t \in BagToSet(tasks) :
       \E i \in 1..Len(Ops) :
         /\ Ops[i].id = t.id /\ Ops[i].operation_type = t.kind
         /\ Ops[i].status = "pending"

\* C31: the session records every remote clock-in and clock-out a timer
\* made: after a timer's remote clock-in succeeded the session is clocked
\* in, after a timer's remote clock-out succeeded it is not, whether or not
\* the operation of the timer is still listed.
TimerOutcomeIsRecorded ==
  /\ (last.op = "execute_scheduled_clock_in" /\ last.res = "Ok(true)") => Session.clocked_in
  /\ (last.op = "execute_scheduled_clock_out" /\ last.res = "Ok(true)") => ~Session.clocked_in

\* C32: with every remote call succeeding and timers firing when due, a
\* session that a timer clocked in is clocked out in the end, or the time
\* modelled runs out with its clock-out timer still armed.
DailyCycleGoesOn ==
  (Session.clocked_in /\ HasAccessToken) ~>
     (~Session.clocked_in \/ (now = CycleEnd /\ Sleeping("ClockOut") # {}))

\* a clock-out timer that starts its remote call in a session that is
\* clocked in does so at or after the expected clock-out time
AutoClockOutStep ==
  \A tk \in BagToSet(tasks) :
    ( /\ TimerFire(tk)
      /\ tk.kind = "ClockOut"
      /\ HasAccessToken
      /\ Session.clocked_in
      /\ Session.expected_clock_out_time # None ) =>
        now >= InstantOf(Session.expected_clock_out_time)

\* C33: no timer issues a remote clock-out before the expected clock-out
\* time of the session, whatever min_work_duration_minutes is, also above
\* 1440 minutes, where the wait of the timer is capped.
NoEarlyAutoClockOut == [][AutoClockOutStep]_vars

\* a step in which a remote clock-in call is sent: by manual_clock_in (from
\* the host or from check_auto_startup) or by a clock-in timer
ClockInIssued ==
  \/ \E c \in BagToSet(calls') :
       c.pc = "clock_in" /\ CopiesIn(c, calls') > CopiesIn(c, calls)
  \/ \E tk \in BagToSet(tasks') :
       /\ tk.kind = "ClockIn" /\ tk.pc = "call"
       /\ CopiesIn(tk, tasks') > CopiesIn(tk, tasks)

ClockedInStep ==
  Session.clocked_in =>
    /\ ~ClockInIssued
    /\ \A c \in BagToSet(calls) :
         manual_clock_in_return(c, "Ok(true)") =>
           NumLive("ClockOut")' <= NumLive("ClockOut")

\* C34: while the session is clocked in no remote clock-in call is sent, by
\* manual_clock_in, by a clock-in timer or by check_auto_startup, and a
\* clock-in on a session that is clocked in arms no further clock-out timer
NoClockInWhileClockedIn == [][ClockedInStep]_vars

\* the remote clock-in calls that have been sent and have not returned
ClockInsInFlight ==
  BagCardinality([c \in {d \in BagToSet(calls) : d.pc = "clock_in"} |-> calls[c]])
    + BagCardinality([t \in {u \in BagToSet(tasks) : u.kind = "ClockIn" /\ u.pc = "call"}
                        |-> tasks[t]])

\* C35: a reconciliation check that overlaps a firing clock-in timer (or
\* another check) sends at most one remote clock-in call between them:
\* while check_auto_startup waits for its clock-in call no other clock-in
\* call is in flight.
ConcurrentReconciliationIsSafe ==
  (\E c \in BagToSet(calls) : c.from = "check" /\ c.pc = "clock_in") =>
     ClockInsInFlight <= 1

NumPending ==
  Cardinality({i \in DOMAIN Ops : Ops[i].status = "pending"})

StoppedStep ==
  (~state.is_running /\ ~state'.is_running) =>
     /\ NumLive("ClockIn")' <= NumLive("ClockIn")
     /\ NumLive("ClockOut")' <= NumLive("ClockOut")
     /\ NumPending' <= NumPending

\* C36: while is_running is false no timer is armed: no manual_clock_in,
\* manual_clock_out or check_auto_startup of a scheduler that is not running
\* adds a pending operation or a live timer task.
StoppedSchedulerArmsNothing == [][StoppedStep]_vars

\* the clock-in time of the session is an instant later than now
ClockInAhead ==
  /\ Session.clock_in_time # None
  /\ ParsesRfc3339(Session.clock_in_time)
  /\ now < InstantOf(Session.clock_in_time)

\* C37: can_clock_out is never true while the time since the clock-in time
\* of the session is negative: the elapsed minutes compare as a signed
\* number, so manual_clock_out(false) is refused then.
NegativeElapsedRefusesClockOut ==
  ClockInAhead => ~can_clock_out(state, schedule, now)

FailedStartStep ==
  \A sch \in Schedules :
    (start_scheduler(sch) /\ last'.res # "Ok") =>
       /\ state'.is_running = state.is_running
       /\ schedule' = schedule
       /\ state'.pending_operations = state.pending_operations
       /\ tasks' = tasks

\* C38: a start_scheduler(schedule) that fails with a validation error,
\* clock_in_time not being a valid HH:MM, leaves the scheduler as it was:
\* is_running, the stored schedule, the pending operations and the armed
\* timers are unchanged.
FailedStartChangesNothing == [][FailedStartStep]_vars

\* the operation list records a clock-out that a timer completed on the
\* local date of now: the engine clocked the user in and out today
ClockedOutToday ==
  \E i \in DOMAIN Ops :
     /\ Ops[i].operation_type = "ClockOut" /\ Ops[i].status = "completed"
     /\ Ops[i].actual_time # None
     /\ LocalDate(InstantOf(Ops[i].actual_time)) = LocalDate(now)

SecondClockInStep ==
  (ClockedOutToday /\ ~Session.clocked_in) =>
     \A c \in BagToSet(calls), r \in AttendanceResults(now) :
        attendance_return(c, r) =>
           ~(\E d \in BagToSet(calls') : d.from = "check" /\ d.pc = "clock_in")

\* C39: check_auto_startup never clocks the user in a second time on a day
\* the engine already handled: once a session was clocked in and clocked
\* out on the local date of now, no later check that day sends a remote
\* clock-in, also when the attendance fetch fails.
NoSecondClockInToday == [][SecondClockInStep]_vars

\* the thread waits in Mutex::lock for a guard that is alive
Blocked(p) == Pos(p).do = "lock" /\ Pos(p).m \in Held

\* C40: the three mutexes are taken in one order on every path (state
\* before schedule, never the state while the schedule is held, the task
\* handles alone), no guard is alive across the .await of a remote call,
\* and so the threads under way are never all blocked on a lock.
DeadlockFree ==
  /\ \A p \in BagToSet(calls) :
        /\ (Pos(p).do = "lock" /\ Pos(p).m = "state") => p.holds = {}
        /\ (Pos(p).do = "lock" /\ Pos(p).m = "schedule") => p.holds \subseteq {"state"}
        /\ (Pos(p).do = "lock" /\ Pos(p).m = "task_handles") => p.holds = {}
        /\ Pos(p).do \in {"send", "recv", "end"} => p.holds = {}
  /\ calls # EmptyBag => \E p \in BagToSet(calls) : ~Blocked(p)

\* a thread that holds the state waits for the schedule, which another
\* thread holds
WaitsForScheduleHoldingState ==
  \E p, q \in BagToSet(calls) :
     /\ p.holds = {"state"} /\ Pos(p) = Lock("schedule")
     /\ "schedule" \in q.holds

====
